---- MODULE Spec2Model ----
(***************************************************************************)
(* Model of the solana-coin-finder analysis core:                          *)
(*   - SolanaService (src/src/services/solanaService.ts, first revision    *)
(*     in the file, lines 1-364): fetchTokenHolders, fetchWalletLabels,    *)
(*     fetchWalletTransactions and the trader classifier;                  *)
(*   - MultiHopTracer (src/unnamed/part_000): traceWalletFlows/traceHops;  *)
(*   - CommonHolderAnalysis (CommonHolderAnalysis.tsx, lines 1-161):       *)
(*     findCommonWallets.                                                  *)
(*                                                                         *)
(* Representation choices                                                  *)
(*   - Amounts are kept in lamports (1e-9 SOL) as integers; the code's     *)
(*     `lamports / 1e9` is a change of unit, so the dust floor 0.001 SOL   *)
(*     is 1000000 lamports.                                                *)
(*   - Progress values are percentages scaled by ProgressScale so that     *)
(*     (k / maxHops) * 100 is an integer for every maxHops in 1..5.        *)
(*   - A JS Map is a sequence of entries in insertion order.               *)
(*   - An async function is a frame on `stack`; every await is a separate  *)
(*     action, the code between two awaits is one action.                  *)
(***************************************************************************)
EXTENDS Integers, Sequences, FiniteSets, TLC

(***************************************************************************)
(* Bounds of the model                                                     *)
(***************************************************************************)
\* largest number of signatures one getSignaturesForAddress reply holds
MaxSigs == 2
\* largest number of signature records the ledger reveals during one run
MaxLedger == 3
\* largest number of signatures in a reply to a direct service call
MaxSvcSigs == 1
\* largest number of token accounts one getProgramAccounts reply holds
MaxAccounts == 2
\* largest number of lines in the token address box
MaxMints == 2
\* largest number of transfer events in a list folded on its own
MaxFold == 3
\* largest number of events in a freely composed sample given to the
\* classifier (the samples of fixed shape are longer)
MaxSample == 3

(***************************************************************************)
(* Program constants                                                       *)
(***************************************************************************)
MinHops == 1
MaxHops == 5
BranchCap == 5
SampleSize == 50
DustFloor == 1000000
ProgressCap == 95
ProgressScale == 3 * 4 * 5
DefaultDustThreshold == 100 * DustFloor
DefaultBotFrequencyThreshold == 50

\* addresses that `new PublicKey(..)` accepts
Addr == {"T", "X", "Y"}
\* further addresses, used by the wide (fan-out) ledger family only
FanAddr == {"T", "X", "Y", "F1", "F2", "F3", "F4", "F5"}
\* the wallets that own token accounts in the model ledger
Owners == {"a", "b"}
\* every string `new PublicKey(..)` accepts
PublicKeys == Addr \cup FanAddr \cup Owners
\* contents the target input box can hold: empty, blank, malformed, valid
WalletInputs == {"", " ", "bad"} \cup Addr
\* lamport amounts of the transfers in the model ledger: half the dust
\* floor (two of them make the floor exactly) and twice the dust floor
Lamports == {500000, 2000000}

VARIABLES
    \* ---- MultiHopTracer component state (part_000:31-37)
    targetWallet, maxHops, isTracing, progress, inflows, outflows, toast,
    \* ---- locals of one traceWalletFlows run (part_000:77-79) and its
    \*      chain of traceHops activations
    allInflows, allOutflows, processedWallets, stack,
    \* ---- environment and history
    engine,      \* which component is mounted: "tracer", "finder", ...
    phase,       \* "idle" before the run, "running", "done" after it
    family,      \* which ledger family answers the queries
    ledgerUsed,  \* signature records revealed so far in this run
    fetchCount,  \* per address: fetchWalletTransactions calls from traceHops
    fetchFailed, \* addresses whose ledger read failed in this run
    revisited,   \* addresses traceHops was called for after their expansion
    appended,    \* aggregates pushed so far in this run: <<type, entry>>
    lastFetch,   \* the latest expansion: subject, events, maps, frontier
    \* ---- a direct call of a SolanaService method and what it returned
    svcCall, svcRet,
    \* ---- CommonHolderAnalysis component state (CommonHolderAnalysis.tsx:
    \*      31-45); finderProgress and finderToast are its `progress` and
    \*      its latest toast
    tokenAddresses, isProcessing, processingStatus, commonWallets,
    finderProgress, finderToast, filterConfig,
    \* ---- locals of one findCommonWallets run and its position
    addresses, holdersLists, commonArr, filtered, done, finderPc,
    \* ---- per service method: calls made by findCommonWallets so far
    serviceCalls

tracerVars == <<targetWallet, maxHops, isTracing, progress, inflows, outflows,
                toast, allInflows, allOutflows, processedWallets, stack>>
envVars == <<engine, phase, family, ledgerUsed, fetchCount, fetchFailed,
             revisited, appended, lastFetch>>
svcVars == <<svcCall, svcRet>>
finderVars == <<tokenAddresses, isProcessing, processingStatus, commonWallets,
                finderProgress, finderToast, filterConfig, addresses,
                holdersLists, commonArr, filtered, done, finderPc, serviceCalls>>
vars == <<tracerVars, envVars, svcVars, finderVars>>

(***************************************************************************)
(* Generic helpers                                                         *)
(***************************************************************************)
Min(a, b) == IF a <= b THEN a ELSE b

SeqsUpTo(S, n) == UNION {[1..k -> S] : k \in 0..n}

Range(s) == {s[i] : i \in 1..Len(s)}

\* Array.prototype.slice(0, n)
Slice(s, n) == SubSeq(s, 1, Min(Len(s), n))

RECURSIVE Flatten(_)
Flatten(ss) == IF ss = <<>> THEN <<>> ELSE Head(ss) \o Flatten(Tail(ss))

(***************************************************************************)
(* validateWalletAddress: `new PublicKey(address)` does not throw          *)
(***************************************************************************)
validateWalletAddress(address) == address \in PublicKeys

\* String.prototype.trim() of the modelled inputs
Trim(s) == IF s = " " THEN "" ELSE s

(***************************************************************************)
(* fetchWalletTransactions                                                 *)
(*   A reply `raw` is [sigsOk, sigs]: whether getSignaturesForAddress on   *)
(*   the primary endpoint succeeded and the signature records it listed.   *)
(*   A signature record is                                                 *)
(*     [signature, blockTime, prim, fb, top, inner]                        *)
(*   prim / fb: what getParsedTransaction does on the primary / fallback   *)
(*   endpoint ("ok", "null", "throw"); top: the top-level instructions;    *)
(*   inner: the inner-instruction groups.  An instruction is               *)
(*     [kind, source, destination, lamports]                               *)
(*   kind "transfer": a parsed system transfer; "other": anything the      *)
(*   `ix.program === 'system' && ix.parsed?.type === 'transfer'` test      *)
(*   skips; "malformed": a transfer whose parsed.info is missing, so that  *)
(*   reading info.source throws.                                           *)
(***************************************************************************)
TransferEvent(sigInfo, source, destination, lamports, type) ==
    [signature |-> sigInfo.signature, blockTime |-> sigInfo.blockTime,
     amount |-> lamports, from |-> source, to |-> destination, type |-> type]

\* addTransfer with the two tests in the other order
addTransferSourceFirst(walletAddress, sigInfo, source, destination, lamports) ==
    IF source = walletAddress
    THEN <<TransferEvent(sigInfo, source, destination, lamports, "out")>>
    ELSE IF destination = walletAddress
         THEN <<TransferEvent(sigInfo, source, destination, lamports, "in")>>
         ELSE <<>>

\* addTransfer / addTransferAlt: the events one transfer instruction adds
addTransfer(walletAddress, sigInfo, source, destination, lamports) ==
    IF destination = walletAddress
    THEN <<TransferEvent(sigInfo, source, destination, lamports, "in")>>
    ELSE IF source = walletAddress
         THEN <<TransferEvent(sigInfo, source, destination, lamports, "out")>>
         ELSE <<>>

\* the two instruction loops of one transaction: top-level, then inner.
\* Result: the events pushed and whether the loops threw part-way.
RECURSIVE RunInstructions(_, _, _)
RunInstructions(walletAddress, sigInfo, ixs) ==
    IF ixs = <<>> THEN [events |-> <<>>, threw |-> FALSE]
    ELSE LET ix == Head(ixs) IN
         IF ix.kind = "malformed" THEN [events |-> <<>>, threw |-> TRUE]
         ELSE LET rest == RunInstructions(walletAddress, sigInfo, Tail(ixs))
                  here == IF ix.kind = "transfer"
                          THEN addTransfer(walletAddress, sigInfo, ix.source,
                                           ix.destination, ix.lamports)
                          ELSE <<>>
              IN [events |-> here \o rest.events, threw |-> rest.threw]

AllInstructions(sigInfo) == sigInfo.top \o Flatten(sigInfo.inner)

\* the catch (txError) block: the same signature read from fallbackConnection
FallbackEvents(walletAddress, sigInfo) ==
    IF sigInfo.fb = "ok"
    THEN RunInstructions(walletAddress, sigInfo, AllInstructions(sigInfo)).events
    ELSE <<>>

\* one iteration of `for (const sigInfo of signatures.slice(0, 50))`
SigEvents(walletAddress, sigInfo) ==
    IF sigInfo.prim = "null" THEN <<>>
    ELSE IF sigInfo.prim = "throw" THEN FallbackEvents(walletAddress, sigInfo)
    ELSE LET r == RunInstructions(walletAddress, sigInfo, AllInstructions(sigInfo))
         IN IF r.threw
            THEN r.events \o FallbackEvents(walletAddress, sigInfo)
            ELSE r.events

RECURSIVE SigLoop(_, _)
SigLoop(walletAddress, sigs) ==
    IF sigs = <<>> THEN <<>>
    ELSE SigEvents(walletAddress, Head(sigs)) \o SigLoop(walletAddress, Tail(sigs))

\* one RPC read: which connection was asked for what
Read(endpoint, call, signature) ==
    [endpoint |-> endpoint, call |-> call, signature |-> signature]

SigReadsBothAlways(walletAddress, sigInfo) ==
    <<Read("primary", "getParsedTransaction", sigInfo.signature),
      Read("fallback", "getParsedTransaction", sigInfo.signature)>>

\* the reads of one iteration: this.connection.getParsedTransaction, and
\* this.fallbackConnection.getParsedTransaction when the catch (txError)
\* block is entered
SigReads(walletAddress, sigInfo) ==
    LET first == Read("primary", "getParsedTransaction", sigInfo.signature)
        alt == Read("fallback", "getParsedTransaction", sigInfo.signature)
    IN IF sigInfo.prim = "null" THEN <<first>>
       ELSE IF sigInfo.prim = "throw" THEN <<first, alt>>
       ELSE IF RunInstructions(walletAddress, sigInfo,
                               AllInstructions(sigInfo)).threw
            THEN <<first, alt>>
            ELSE <<first>>

RECURSIVE ReadLoop(_, _)
ReadLoop(walletAddress, sigs) ==
    IF sigs = <<>> THEN <<>>
    ELSE SigReads(walletAddress, Head(sigs)) \o ReadLoop(walletAddress, Tail(sigs))

\* a fetchWalletTransactions call as seen by its caller:
\* [threw, transactions], and the RPC reads it made, in order
FetchOutcome(walletAddress, raw) ==
    LET list == Read("primary", "getSignaturesForAddress", 0) IN
    IF ~validateWalletAddress(walletAddress)
    THEN [threw |-> FALSE, transactions |-> <<>>, reads |-> <<>>]
    ELSE IF ~raw.sigsOk
    THEN [threw |-> FALSE, transactions |-> <<>>, reads |-> <<list>>]
    ELSE [threw |-> FALSE,
          transactions |-> SigLoop(walletAddress, Slice(raw.sigs, SampleSize)),
          reads |-> <<list>> \o ReadLoop(walletAddress,
                                         Slice(raw.sigs, SampleSize))]

fetchWalletTransactions(walletAddress, raw) ==
    FetchOutcome(walletAddress, raw).transactions

(***************************************************************************)
(* Number arithmetic of the amounts: `lamports / 1e9` is an IEEE double    *)
(* and `existing.total + tx.amount` a double addition, rounded to nearest. *)
(* The double nearest to n lamports is written n.  For the amounts of the  *)
(* tracer's ledger families every sum met is again such a double, so the   *)
(* addition is the integer one.  For amounts of 0.1, 0.2 and 0.3 SOL it is *)
(* not: 0.1 + 0.2 is 0.30000000000000004, one unit in the last place above *)
(* the double nearest 0.3.  The double k units in the last place above the *)
(* double nearest n lamports is written -(n + k); InexactSums lists        *)
(* <<x, y, x + y>> for every sum of at most four such amounts in which one *)
(* of the three is such a double.                                          *)
(***************************************************************************)
InexactSums ==
    {<<100000000, 200000000, -300000001>>,
     <<200000000, 100000000, -300000001>>,
     <<-300000001, 100000000, 400000000>>,
     <<-300000001, 200000000, 500000000>>,
     <<-300000001, 300000000, -600000001>>,
     <<400000000, 200000000, -600000001>>,
     <<600000000, 300000000, -899999999>>,
     <<-600000001, 100000000, -700000001>>,
     <<-600000001, 200000000, 800000000>>,
     <<-600000001, 300000000, -900000001>>,
     <<700000000, 100000000, -799999999>>,
     <<700000000, 200000000, -899999999>>,
     <<-899999999, 100000000, -999999999>>,
     <<-899999999, 200000000, -1099999999>>,
     <<-899999999, 300000000, 1200000000>>}

RoundedSum ==
    [p \in {<<t[1], t[2]>> : t \in InexactSums} |->
        (CHOOSE t \in InexactSums : t[1] = p[1] /\ t[2] = p[2])[3]]

\* x + y on doubles
Plus(x, y) ==
    IF <<x, y>> \in DOMAIN RoundedSum THEN RoundedSum[<<x, y>>] ELSE x + y

(***************************************************************************)
(* The aggregation of traceHops (part_000:118-140): a Map keyed by         *)
(* counterparty, as a sequence of [address, total, count] entries in       *)
(* insertion order.                                                        *)
(***************************************************************************)
MapHas(m, k) == \E i \in 1..Len(m) : m[i].address = k

MapIndex(m, k) == CHOOSE i \in 1..Len(m) : m[i].address = k

\* existing = map.get(k) || {total: 0, count: 0}; map.set(k, {...})
MapAdd(m, k, amount) ==
    IF MapHas(m, k)
    THEN [m EXCEPT ![MapIndex(m, k)] =
             [address |-> k, total |-> Plus(@.total, amount),
              count |-> @.count + 1]]
    ELSE Append(m, [address |-> k, total |-> Plus(0, amount), count |-> 1])

Counterparty(tx, type) == IF type = "in" THEN tx.from ELSE tx.to

\* the .filter(..) without the `!== walletAddress` test
CountedWithSelf(tx, walletAddress, type) ==
    /\ tx.type = type
    /\ Counterparty(tx, type) # ""

\* the .filter(..) of lines 121 and 133
Counted(tx, walletAddress, type) ==
    /\ tx.type = type
    /\ Counterparty(tx, type) # ""
    /\ Counterparty(tx, type) # walletAddress

RECURSIVE FoldFrom(_, _, _, _)
FoldFrom(m, transactions, walletAddress, type) ==
    IF transactions = <<>> THEN m
    ELSE LET tx == Head(transactions)
             m2 == IF Counted(tx, walletAddress, type)
                   THEN MapAdd(m, Counterparty(tx, type), tx.amount)
                   ELSE m
         IN FoldFrom(m2, Tail(transactions), walletAddress, type)

FlowMap(transactions, walletAddress, type) ==
    FoldFrom(<<>>, transactions, walletAddress, type)

MapKeys(m) == [i \in 1..Len(m) |-> m[i].address]

\* `if (data.total > 0.001)` of lines 144 and 157
AboveDust(total) == total > DustFloor

WalletFlow(entry, type, currentHop) ==
    [address |-> entry.address,
     totalIn |-> IF type = "in" THEN entry.total ELSE 0,
     totalOut |-> IF type = "out" THEN entry.total ELSE 0,
     transactionCount |-> entry.count,
     type |-> IF type = "in" THEN "inflow" ELSE "outflow",
     hop |-> currentHop]

\* the inflowMap.forEach / outflowMap.forEach pushes
RECURSIVE Survivors(_, _, _)
Survivors(m, type, currentHop) ==
    IF m = <<>> THEN <<>>
    ELSE (IF AboveDust(Head(m).total)
          THEN <<WalletFlow(Head(m), type, currentHop)>> ELSE <<>>)
         \o Survivors(Tail(m), type, currentHop)

\* lines 175-178 without the .slice(0, 5)
NextHopWalletsUncapped(inflowMap, outflowMap) ==
    MapKeys(inflowMap) \o MapKeys(outflowMap)

\* lines 175-178
NextHopWallets(inflowMap, outflowMap) ==
    Slice(MapKeys(inflowMap) \o MapKeys(outflowMap), BranchCap)

\* lines 170-171, in units of 1/ProgressScale percent
TotalProgress(hops, remainingHops) ==
    Min(((hops - remainingHops + 1) * 100 * ProgressScale) \div hops,
        ProgressCap * ProgressScale)

(***************************************************************************)
(* Array.prototype.sort with comparator (a, b) => key(b) - key(a):         *)
(* a stable sort, descending by key.                                       *)
(***************************************************************************)
FlowKey(f, type) == IF type = "in" THEN f.totalIn ELSE f.totalOut

RECURSIVE InsertDesc(_, _, _)
InsertDesc(sorted, e, type) ==
    IF sorted = <<>> THEN <<e>>
    ELSE IF FlowKey(Head(sorted), type) >= FlowKey(e, type)
         THEN <<Head(sorted)>> \o InsertDesc(Tail(sorted), e, type)
         ELSE <<e>> \o sorted

RECURSIVE SortDesc(_, _)
SortDesc(s, type) ==
    IF s = <<>> THEN <<>>
    ELSE InsertDesc(SortDesc(SubSeq(s, 1, Len(s) - 1), type), s[Len(s)], type)

(***************************************************************************)
(* The ledger families: the replies getSignaturesForAddress and            *)
(* getParsedTransaction can give for a subject address.                    *)
(***************************************************************************)
Transfer(source, destination, lamports) ==
    [kind |-> "transfer", source |-> source, destination |-> destination,
     lamports |-> lamports]

\* a transaction holding one top-level transfer, readable on both endpoints
SimpleSig(i, n, ix) ==
    [signature |-> i, blockTime |-> (n - i + 1) * 3600, prim |-> "ok",
     fb |-> "ok", top |-> <<ix>>, inner |-> <<>>]

SimpleSigs(q) == [i \in 1..Len(q) |-> SimpleSig(i, Len(q), q[i])]

\* sigs: the records getSignaturesForAddress lists for the address;
\* sigsOk: whether the primary endpoint answers; fallbackListOk /
\* backupListOk: whether the other two endpoints would have answered (the
\* code never asks them)
FailedRead == [sigsOk |-> FALSE, fallbackListOk |-> FALSE,
               backupListOk |-> FALSE, sigs |-> <<>>]

GoodRead(sigs) == [sigsOk |-> TRUE, fallbackListOk |-> TRUE,
                   backupListOk |-> TRUE, sigs |-> sigs]

\* transfers with the subject on at least one side
Touching(subject, others, amounts) ==
    {Transfer(subject, c, l) : c \in others, l \in amounts}
    \cup {Transfer(c, subject, l) : c \in others, l \in amounts}

\* "graph": any history of at most MaxSigs one-transfer transactions among
\* Addr, as long as the run has revealed fewer than MaxLedger records
RawGraph(subject, room, amounts) ==
    {FailedRead} \cup
    {GoodRead(SimpleSigs(q)) :
        q \in SeqsUpTo(Touching(subject, Addr, amounts), Min(MaxSigs, room))}

\* "fan": hub histories over FanAddr: the subject pays all of FanOrder, or
\* is paid by its first three addresses and pays its first four
FanOrder == <<"X", "Y", "F1", "F2", "F3", "F4", "F5", "T">>

FanOut(subject, n) == [i \in 1..n |-> Transfer(subject, FanOrder[i], 2 * DustFloor)]

FanIn(subject, n) == [i \in 1..n |-> Transfer(FanOrder[i], subject, 2 * DustFloor)]

RawFan(subject) ==
    {FailedRead} \cup
    {GoodRead(SimpleSigs(q)) :
        q \in {FanOut(subject, 8), FanIn(subject, 3) \o FanOut(subject, 4)}}

\* "plain" is "graph" with a single amount, above the dust floor
RawReplies(fam, subject, room) ==
    IF fam = "fan" THEN RawFan(subject)
    ELSE IF fam = "plain" THEN RawGraph(subject, room, {2 * DustFloor})
    ELSE RawGraph(subject, room, Lamports)

(***************************************************************************)
(* MultiHopTracer                                                          *)
(***************************************************************************)
NoCall == [op |-> "none"]

NoFetch == [walletAddress |-> "", currentHop |-> 0, failed |-> FALSE,
            transactions |-> <<>>, inflowMap |-> <<>>, outflowMap |-> <<>>,
            nextHopWallets |-> <<>>]

Frame(walletAddress, remainingHops, currentHop) ==
    [walletAddress |-> walletAddress, remainingHops |-> remainingHops,
     currentHop |-> currentHop, pc |-> "call", nextHopWallets |-> <<>>,
     idx |-> 1]

Top == stack[Len(stack)]

Pop == SubSeq(stack, 1, Len(stack) - 1)

ReplaceTop(f) == [stack EXCEPT ![Len(stack)] = f]

InitFinderState ==
    /\ tokenAddresses = <<"">>
    /\ isProcessing = FALSE
    /\ processingStatus = <<>>
    /\ commonWallets = <<>>
    /\ finderProgress = 0
    /\ finderToast = "none"
    /\ filterConfig = [excludeExchanges |-> TRUE, excludeDustWallets |-> TRUE,
                       excludeBots |-> TRUE, useHumanHeuristics |-> FALSE,
                       dustThreshold |-> DefaultDustThreshold,
                       botFrequencyThreshold |-> DefaultBotFrequencyThreshold]
    /\ addresses = <<>>
    /\ holdersLists = <<>>
    /\ commonArr = <<>>
    /\ filtered = <<>>
    /\ done = 0
    /\ finderPc = "idle"
    /\ serviceCalls = [fetchTokenHolders |-> 0, fetchWalletLabels |-> 0,
                       fetchWalletTransactions |-> 0, isHumanTrader |-> 0]

InitTracerState ==
    /\ targetWallet = ""
    /\ maxHops = 2
    /\ phase = "idle"
    /\ isTracing = FALSE
    /\ progress = 0
    /\ inflows = <<>>
    /\ outflows = <<>>
    /\ toast = "none"
    /\ allInflows = <<>>
    /\ allOutflows = <<>>
    /\ processedWallets = {}
    /\ stack = <<>>
    /\ ledgerUsed = 0
    /\ fetchCount = [a \in FanAddr |-> 0]
    /\ fetchFailed = {}
    /\ revisited = {}
    /\ appended = {}
    /\ lastFetch = NoFetch
    /\ svcCall = NoCall
    /\ svcRet = NoCall

\* the user types into the target box (disabled while tracing)
SetTargetWallet ==
    /\ engine = "tracer"
    /\ phase = "idle"
    /\ ~isTracing
    /\ \E w \in WalletInputs : targetWallet' = w
    /\ UNCHANGED <<maxHops, isTracing, progress, inflows, outflows, toast,
                   allInflows, allOutflows, processedWallets, stack, envVars,
                   svcVars, finderVars>>

\* the user moves the hop slider (min 1, max 5; disabled while tracing)
SetMaxHops ==
    /\ engine = "tracer"
    /\ phase = "idle"
    /\ ~isTracing
    /\ \E k \in MinHops..MaxHops : maxHops' = k
    /\ UNCHANGED <<targetWallet, isTracing, progress, inflows, outflows, toast,
                   allInflows, allOutflows, processedWallets, stack, envVars,
                   svcVars, finderVars>>

\* traceWalletFlows up to its first await: the two input checks, the state
\* resets, the fresh locals and the call traceHops(targetWallet, maxHops, .., 0)
TraceWalletFlows ==
    /\ engine = "tracer"
    /\ phase = "idle"
    /\ ~isTracing
    /\ ledgerUsed' = 0
    /\ fetchCount' = [a \in FanAddr |-> 0]
    /\ fetchFailed' = {}
    /\ revisited' = {}
    /\ appended' = {}
    /\ lastFetch' = NoFetch
    /\ UNCHANGED <<targetWallet, maxHops, engine, family, svcVars, finderVars>>
    /\ IF Trim(targetWallet) = ""
       THEN /\ toast' = "Error: Please enter a wallet address"
            /\ phase' = "done"
            /\ UNCHANGED <<isTracing, progress, inflows, outflows, allInflows,
                           allOutflows, processedWallets, stack>>
       ELSE IF ~validateWalletAddress(targetWallet)
       THEN /\ toast' = "Invalid Address"
            /\ phase' = "done"
            /\ UNCHANGED <<isTracing, progress, inflows, outflows, allInflows,
                           allOutflows, processedWallets, stack>>
       ELSE /\ isTracing' = TRUE
            /\ phase' = "running"
            /\ progress' = 0
            /\ inflows' = <<>>
            /\ outflows' = <<>>
            /\ toast' = "none"
            /\ allInflows' = <<>>
            /\ allOutflows' = <<>>
            /\ processedWallets' = {}
            /\ stack' = <<Frame(targetWallet, maxHops, 0)>>

\* line 109 without the processedWallets test
TerminalIgnoringVisited(remainingHops, walletAddress, processed) ==
    remainingHops <= 0

\* line 109
Terminal(remainingHops, walletAddress, processed) ==
    remainingHops <= 0 \/ walletAddress \in processed

\* traceHops from its entry to the await of line 116: the guard, the mark
\* and the start of the ledger read
TraceHopsEnter ==
    /\ isTracing
    /\ stack # <<>>
    /\ Top.pc = "call"
    /\ IF Terminal(Top.remainingHops, Top.walletAddress, processedWallets)
       THEN /\ stack' = Pop
            /\ revisited' = IF Top.walletAddress \in processedWallets
                            THEN revisited \cup {Top.walletAddress}
                            ELSE revisited
            /\ UNCHANGED <<processedWallets, fetchCount>>
       ELSE /\ processedWallets' = processedWallets \cup {Top.walletAddress}
            /\ fetchCount' = [fetchCount EXCEPT ![Top.walletAddress] = @ + 1]
            /\ stack' = ReplaceTop([Top EXCEPT !.pc = "fetch"])
            /\ UNCHANGED revisited
    /\ UNCHANGED <<targetWallet, maxHops, isTracing, progress, inflows, outflows,
                   toast, allInflows, allOutflows, engine, phase, family,
                   ledgerUsed, fetchFailed, appended, lastFetch, svcVars,
                   finderVars>>

\* traceHops from the return of fetchWalletTransactions (line 116) to the
\* loop of line 180, for the reply `raw`
Expand(raw) ==
    LET f == Top
        transactions == fetchWalletTransactions(f.walletAddress, raw)
        inflowMap == FlowMap(transactions, f.walletAddress, "in")
        outflowMap == FlowMap(transactions, f.walletAddress, "out")
        newIn == Survivors(inflowMap, "in", f.currentHop)
        newOut == Survivors(outflowMap, "out", f.currentHop)
        nextHopWallets == IF f.remainingHops > 1
                          THEN NextHopWallets(inflowMap, outflowMap)
                          ELSE <<>>
    IN /\ allInflows' = allInflows \o newIn
       /\ allOutflows' = allOutflows \o newOut
       /\ progress' = TotalProgress(maxHops, f.remainingHops)
       /\ stack' = IF f.remainingHops > 1
                   THEN ReplaceTop([f EXCEPT !.pc = "loop",
                                             !.nextHopWallets = nextHopWallets])
                   ELSE Pop
       /\ ledgerUsed' = ledgerUsed + Len(raw.sigs)
       /\ fetchFailed' = IF raw.sigsOk THEN fetchFailed
                         ELSE fetchFailed \cup {f.walletAddress}
       /\ appended' = appended \cup {<<"in", e>> : e \in Range(newIn)}
                               \cup {<<"out", e>> : e \in Range(newOut)}
       /\ lastFetch' = [walletAddress |-> f.walletAddress,
                        currentHop |-> f.currentHop,
                        failed |-> ~raw.sigsOk,
                        transactions |-> transactions,
                        inflowMap |-> inflowMap, outflowMap |-> outflowMap,
                        nextHopWallets |-> nextHopWallets]
       /\ UNCHANGED <<targetWallet, maxHops, isTracing, inflows, outflows, toast,
                      processedWallets, engine, phase, family, fetchCount,
                      revisited, svcVars, finderVars>>

\* what the run would do if a failed ledger read escaped both catch blocks
\* (lines 184-186 and 90-95): the trace is abandoned with the error toast
AbandonRun ==
    /\ stack' = <<>>
    /\ isTracing' = FALSE
    /\ phase' = "done"
    /\ toast' = "Error: Failed to trace wallet flows"
    /\ fetchFailed' = fetchFailed \cup {Top.walletAddress}
    /\ UNCHANGED <<targetWallet, maxHops, progress, inflows, outflows,
                   allInflows, allOutflows, processedWallets, engine, family,
                   ledgerUsed, fetchCount, revisited, appended, lastFetch,
                   svcVars, finderVars>>

TraceHopsFetchedAborting ==
    /\ isTracing
    /\ stack # <<>>
    /\ Top.pc = "fetch"
    /\ \E raw \in RawReplies(family, Top.walletAddress, MaxLedger - ledgerUsed) :
          IF raw.sigsOk THEN Expand(raw) ELSE AbandonRun

TraceHopsFetched ==
    /\ isTracing
    /\ stack # <<>>
    /\ Top.pc = "fetch"
    /\ \E raw \in RawReplies(family, Top.walletAddress, MaxLedger - ledgerUsed) :
          Expand(raw)

\* a loop that never leaves its first element
NextIndexStuck(idx) == idx

\* the advance of `for (const nextWallet of nextHopWallets)`
NextIndex(idx) == idx + 1

\* one turn of the loop of lines 180-182: the recursive call, or the return
\* once the frontier is exhausted
TraceHopsLoop ==
    /\ isTracing
    /\ stack # <<>>
    /\ Top.pc = "loop"
    /\ IF Top.idx <= Len(Top.nextHopWallets)
       THEN stack' = Append(ReplaceTop([Top EXCEPT !.idx = NextIndex(@)]),
                            Frame(Top.nextHopWallets[Top.idx],
                                  Top.remainingHops - 1, Top.currentHop + 1))
       ELSE stack' = Pop
    /\ UNCHANGED <<targetWallet, maxHops, isTracing, progress, inflows, outflows,
                   toast, allInflows, allOutflows, processedWallets, envVars,
                   svcVars, finderVars>>

\* traceWalletFlows after `await traceHops(..)`: lines 83-89 and 96-98
TraceFinish ==
    /\ isTracing
    /\ stack = <<>>
    /\ inflows' = SortDesc(allInflows, "in")
    /\ outflows' = SortDesc(allOutflows, "out")
    /\ toast' = "Tracing Complete"
    /\ isTracing' = FALSE
    /\ phase' = "done"
    /\ UNCHANGED <<targetWallet, maxHops, progress, allInflows, allOutflows,
                   processedWallets, stack, engine, family, ledgerUsed,
                   fetchCount, fetchFailed, revisited, appended, lastFetch,
                   svcVars, finderVars>>

TracerStep == TraceHopsEnter \/ TraceHopsFetched \/ TraceHopsLoop \/ TraceFinish

NextTracer ==
    \/ SetTargetWallet
    \/ SetMaxHops
    \/ TraceWalletFlows
    \/ TraceHopsEnter
    \/ TraceHopsFetched
    \/ TraceHopsLoop
    \/ TraceFinish

Init ==
    /\ engine = "tracer"
    /\ family = "graph"
    /\ InitTracerState
    /\ InitFinderState

Spec == Init /\ [][NextTracer]_vars

InitFan ==
    /\ engine = "tracer"
    /\ family = "fan"
    /\ InitTracerState
    /\ InitFinderState

SpecFan == InitFan /\ [][NextTracer]_vars

\* every started step of a run is eventually taken: each ledger call
\* eventually returns or fails, and the continuation then runs
InitPlain ==
    /\ engine = "tracer"
    /\ family = "plain"
    /\ InitTracerState
    /\ InitFinderState

LiveSpec == InitPlain /\ [][NextTracer]_vars /\ WF_vars(TracerStep)

(***************************************************************************)
(* Properties of the tracer                                                *)
(***************************************************************************)
TotalFetches == 
    LET RECURSIVE Sum(_)
        Sum(S) == IF S = {} THEN 0
                  ELSE LET a == CHOOSE x \in S : TRUE
                       IN fetchCount[a] + Sum(S \ {a})
    IN Sum(FanAddr)

RECURSIVE Power(_, _)
Power(b, n) == IF n = 0 THEN 1 ELSE b * Power(b, n - 1)

RECURSIVE GeometricSum(_, _)
GeometricSum(b, k) == IF k = 0 THEN 0 ELSE Power(b, k - 1) + GeometricSum(b, k - 1)

\* C1: in any run no address has its history fetched more than once, and the
\* step that starts the fetch of an address is the step that finds it absent
\* from processedWallets and adds it
AtMostOnceExpansion ==
    [][\A a \in FanAddr :
          /\ fetchCount'[a] <= 1
          /\ fetchCount'[a] > fetchCount[a] =>
                a \notin processedWallets /\ a \in processedWallets'
          /\ (a \in processedWallets' /\ a \notin processedWallets) =>
                fetchCount'[a] = fetchCount[a] + 1]_vars

\* C1 witness: an address was referenced again after its expansion, in a
\* trace of more than one hop, and was still fetched once
RevisitSkipped ==
    /\ phase = "done"
    /\ revisited # {}
    /\ \A a \in revisited : fetchCount[a] = 1

\* C2: every started trace reaches its end state
TraceTerminates ==
    (phase = "running") ~> (phase = "done" /\ ~isTracing /\ stack = <<>>)

\* C2 witness: a trace over a graph with a cycle back to the target ended
CyclicTraceEnded ==
    /\ phase = "done"
    /\ toast = "Tracing Complete"
    /\ targetWallet \in revisited

\* C3: a trace with maxHops = k issues at most 1 + b + .. + b^(k-1) fetches
FetchBound == TotalFetches <= GeometricSum(BranchCap, maxHops)

\* C3 witness: a two-hop trace of a hub with more than BranchCap
\* counterparties used the whole allowance of 1 + BranchCap fetches
FetchBoundAttained ==
    /\ phase = "done"
    /\ maxHops = 2
    /\ TotalFetches = 1 + BranchCap

\* C4: a failed ledger read ends only its own branch: the step that sees the
\* failure leaves the results and the callers' frames as they are, nothing
\* appended is ever lost, and the run ends as a completed trace whose lists
\* hold every aggregate appended
GracefulDegradation ==
    /\ [][(fetchFailed' # fetchFailed /\ phase = "running") =>
            /\ isTracing'
            /\ allInflows' = allInflows /\ allOutflows' = allOutflows
            /\ Len(stack') >= Len(stack) - 1
            /\ SubSeq(stack', 1, Len(stack) - 1) = SubSeq(stack, 1, Len(stack) - 1)]_vars
    /\ [][phase = "running" => appended \subseteq appended']_vars
    /\ [](phase = "done" /\ fetchFailed # {} =>
            /\ toast = "Tracing Complete"
            /\ ~isTracing
            /\ \A x \in appended :
                  IF x[1] = "in" THEN x[2] \in Range(inflows)
                  ELSE x[2] \in Range(outflows))

\* C4 witness: a read failed below the target after aggregates had been
\* appended, and the trace completed with them
FailedBranchSurvived ==
    /\ phase = "done"
    /\ fetchFailed # {}
    /\ targetWallet \notin fetchFailed
    /\ inflows # <<>>
    /\ outflows # <<>>
    /\ Cardinality(processedWallets) = 3

EventsWith(transactions, counterparty, type) ==
    {i \in 1..Len(transactions) :
        /\ transactions[i].type = type
        /\ (IF type = "in" THEN transactions[i].from ELSE transactions[i].to)
             = counterparty}

RECURSIVE AmountOver(_, _)
AmountOver(transactions, I) ==
    IF I = {} THEN 0
    ELSE LET i == CHOOSE x \in I : TRUE
         IN transactions[i].amount + AmountOver(transactions, I \ {i})

AggregatesOf(m, type) ==
    LET subject == lastFetch.walletAddress
        evs == lastFetch.transactions
    IN /\ \A i, j \in 1..Len(m) : m[i].address = m[j].address => i = j
       /\ \A i \in 1..Len(m) :
             /\ m[i].address # subject
             /\ m[i].count = Cardinality(EventsWith(evs, m[i].address, type))
             /\ m[i].total = AmountOver(evs, EventsWith(evs, m[i].address, type))
       /\ \A c \in Addr \ {subject} :
             EventsWith(evs, c, type) # {} => MapHas(m, c)

OnlySelfTransfers ==
    /\ lastFetch.walletAddress = targetWallet
    /\ lastFetch.currentHop = 0
    /\ lastFetch.transactions # <<>>
    /\ \A i \in 1..Len(lastFetch.transactions) :
          /\ lastFetch.transactions[i].from = targetWallet
          /\ lastFetch.transactions[i].to = targetWallet

\* C9: the aggregation of one expansion has one entry per counterparty and
\* direction, holding the sum and the number of the subject's events with
\* it, and none for the subject itself; a target that only pays itself gets
\* empty lists, an empty frontier and a completed trace
AggregationPerCounterparty ==
    lastFetch.walletAddress # "" =>
        /\ AggregatesOf(lastFetch.inflowMap, "in")
        /\ AggregatesOf(lastFetch.outflowMap, "out")
        /\ OnlySelfTransfers =>
              /\ lastFetch.nextHopWallets = <<>>
              /\ allInflows = <<>> /\ allOutflows = <<>>
              /\ phase = "done" =>
                    /\ inflows = <<>> /\ outflows = <<>>
                    /\ toast = "Tracing Complete"

\* C9 witness: two events of different amounts were folded into one
\* aggregate while a self-transfer of the same history was left out
TwoEventsFolded ==
    /\ lastFetch.walletAddress # ""
    /\ \E i \in 1..Len(lastFetch.inflowMap) :
          /\ lastFetch.inflowMap[i].count = 2
          /\ lastFetch.inflowMap[i].total = 2500000

\* C10 as claimed: an aggregate is appended exactly when its total is at
\* least the dust floor
DustCutoffInclusive ==
    lastFetch.walletAddress # "" =>
        /\ \A i \in 1..Len(lastFetch.inflowMap) :
              lastFetch.inflowMap[i].total >= DustFloor <=>
                  <<"in", WalletFlow(lastFetch.inflowMap[i], "in",
                                     lastFetch.currentHop)>> \in appended
        /\ \A i \in 1..Len(lastFetch.outflowMap) :
              lastFetch.outflowMap[i].total >= DustFloor <=>
                  <<"out", WalletFlow(lastFetch.outflowMap[i], "out",
                                      lastFetch.currentHop)>> \in appended

(***************************************************************************)
(* fetchTokenHolders (solanaService.ts:40-135)                             *)
(*   `replies` gives, for each of the three connections, what its          *)
(*   getProgramAccounts call does: [ok, owners], ok FALSE when the call or *)
(*   the decoding of an owner throws, else the owners of the token         *)
(*   accounts it returns.                                                  *)
(***************************************************************************)
Endpoints == <<"primary", "fallback", "backup">>

RECURSIVE Dedup(_)
\* Array.from(new Set(owners)): first occurrences, in order
Dedup(owners) ==
    IF owners = <<>> THEN <<>>
    ELSE LET init == Dedup(SubSeq(owners, 1, Len(owners) - 1))
             last == owners[Len(owners)]
         IN IF last \in Range(init) THEN init ELSE Append(init, last)

\* one try block: `new PublicKey(tokenAddress)`, getProgramAccounts, decode
Attempt(tokenAddress, replies, endpoint) ==
    IF ~validateWalletAddress(tokenAddress) THEN [ok |-> FALSE, called |-> <<>>]
    ELSE [ok |-> replies[endpoint].ok, called |-> <<endpoint>>]

\* the revision without the backup connection (solanaService.ts:404-465)
fetchTokenHoldersTwoEndpoints(tokenAddress, replies) ==
    LET a1 == Attempt(tokenAddress, replies, "primary")
        a2 == Attempt(tokenAddress, replies, "fallback")
    IN IF a1.ok
       THEN [threw |-> FALSE, holders |-> Dedup(replies["primary"].owners),
             called |-> a1.called]
       ELSE IF a2.ok
       THEN [threw |-> FALSE, holders |-> Dedup(replies["fallback"].owners),
             called |-> a1.called \o a2.called]
       ELSE [threw |-> TRUE, holders |-> <<>>,
             called |-> a1.called \o a2.called]

\* [threw, holders, called]: the outcome and the endpoints asked, in order
fetchTokenHolders(tokenAddress, replies) ==
    LET a1 == Attempt(tokenAddress, replies, "primary")
        a2 == Attempt(tokenAddress, replies, "fallback")
        a3 == Attempt(tokenAddress, replies, "backup")
    IN IF a1.ok
       THEN [threw |-> FALSE, holders |-> Dedup(replies["primary"].owners),
             called |-> a1.called]
       ELSE IF a2.ok
       THEN [threw |-> FALSE, holders |-> Dedup(replies["fallback"].owners),
             called |-> a1.called \o a2.called]
       ELSE IF a3.ok
       THEN [threw |-> FALSE, holders |-> Dedup(replies["backup"].owners),
             called |-> a1.called \o a2.called \o a3.called]
       ELSE [threw |-> TRUE, holders |-> <<>>,
             called |-> a1.called \o a2.called \o a3.called]

(***************************************************************************)
(* fetchWalletLabels and the trader classifier                             *)
(*   A label reply is [ok, data]: ok FALSE when the labelling request (or  *)
(*   the mapping of its body) throws, else the entries of the body.  An    *)
(*   entry is [address, label, type, category]; "" stands for a field the  *)
(*   entry does not carry (`label.label || ''`, `!label.label`).           *)
(*   A FilterConfig is [excludeExchanges, excludeDustWallets, excludeBots, *)
(*   useHumanHeuristics, dustThreshold, botFrequencyThreshold], the dust   *)
(*   threshold in lamports.                                                *)
(***************************************************************************)
Unlabelled(address) ==
    [address |-> address, label |-> "", type |-> "", category |-> ""]

fetchWalletLabels(addressList, reply) ==
    IF reply.ok THEN reply.data
    ELSE [i \in 1..Len(addressList) |-> Unlabelled(addressList[i])]

exchangeKeywords ==
    {"exchange", "binance", "coinbase", "kraken", "okx", "bybit", "cex"}

protocolKeywords ==
    {"jupiter", "raydium", "orca", "serum", "mango", "protocol"}

\* String.prototype.toLowerCase() of the modelled label texts
toLowerCase(t) ==
    CASE t = "Binance 8" -> "binance 8"
      [] t = "Jupiter Aggregator" -> "jupiter aggregator"
      [] OTHER -> t

\* the keywords a lower-case text includes
KeywordsIncluded(t) ==
    CASE t = "binance 8" -> {"binance"}
      [] t = "jupiter aggregator" -> {"jupiter"}
      [] OTHER -> {}

\* the three fields are joined by spaces and no keyword holds a space, so
\* the joined text includes a keyword exactly when one of the fields does
isExchangeOrProtocolWallet(label) ==
    IF label.label = "" /\ label.type = "" /\ label.category = "" THEN FALSE
    ELSE LET included == UNION {KeywordsIncluded(toLowerCase(f)) :
                                  f \in {label.label, label.type, label.category}}
         IN included \cap (exchangeKeywords \cup protocolKeywords) # {}

RECURSIVE totalValue(_)
\* transactions.reduce((sum, tx) => sum + tx.amount, 0)
totalValue(transactions) ==
    IF transactions = <<>> THEN 0
    ELSE Head(transactions).amount + totalValue(Tail(transactions))

\* the dust test with <= for <
isDustWalletInclusive(transactions, config) ==
    totalValue(transactions) <= config.dustThreshold

\* `totalValue < config.dustThreshold`
isDustWallet(transactions, config) ==
    totalValue(transactions) < config.dustThreshold

\* frequency = length / max(1, span / 3600) > threshold, and
\* uniqueAmounts.size < length * 0.3, both cleared of their divisions
isBotLikeBehaviorRepetitionOnly(transactions, config) ==
    LET n == Len(transactions)
        uniqueAmounts == {transactions[i].amount : i \in 1..n}
    IN IF n = 0 THEN FALSE
       ELSE 10 * Cardinality(uniqueAmounts) < 3 * n

isBotLikeBehavior(transactions, config) ==
    LET n == Len(transactions)
        span == transactions[1].blockTime - transactions[n].blockTime
        frequent == IF span <= 3600
                    THEN n > config.botFrequencyThreshold
                    ELSE n * 3600 > config.botFrequencyThreshold * span
        uniqueAmounts == {transactions[i].amount : i \in 1..n}
    IN IF n = 0 THEN FALSE
       ELSE IF n > 10 /\ frequent THEN TRUE
       ELSE 10 * Cardinality(uniqueAmounts) < 3 * n

RECURSIVE SumOver(_, _)
SumOver(f, m) == IF m = 0 THEN 0 ELSE f[m] + SumOver(f, m - 1)

\* variance > avgInterval * 0.5 over the first min(length, 10) - 1
\* intervals; with S the sum and Q the sum of squares of m intervals the
\* variance is (m*Q - S*S) / (m*m) and the average S / m
hasHumanLikeTraitsFromTwo(transactions) ==
    LET n == Len(transactions)
        m == Min(n, 10) - 1
        intervals == [i \in 1..m |->
                        transactions[i].blockTime - transactions[i + 1].blockTime]
        S == SumOver(intervals, m)
        Q == SumOver([i \in 1..m |-> intervals[i] * intervals[i]], m)
    IN IF n = 0 THEN FALSE
       ELSE IF n > 1 THEN 2 * (m * Q - S * S) > m * S
       ELSE TRUE

hasHumanLikeTraits(transactions) ==
    LET n == Len(transactions)
        m == Min(n, 10) - 1
        intervals == [i \in 1..m |->
                        transactions[i].blockTime - transactions[i + 1].blockTime]
        S == SumOver(intervals, m)
        Q == SumOver([i \in 1..m |-> intervals[i] * intervals[i]], m)
    IN IF n = 0 THEN FALSE
       ELSE IF n > 5 THEN 2 * (m * Q - S * S) > m * S
       ELSE TRUE

\* [verdict, stage, labelCalls, historyCalls]: the answer, the statement
\* that produced it, and the service calls made on the way.  labels[0] of
\* an empty reply is undefined, and reading its fields throws into the
\* catch block, which answers true.
isHumanTrader(walletAddress, config, labelReply, raw) ==
    LET labels == fetchWalletLabels(<<walletAddress>>, labelReply)
        transactions == fetchWalletTransactions(walletAddress, raw)
        Answer(v, s, h) == [verdict |-> v, stage |-> s, labelCalls |-> 1,
                            historyCalls |-> h]
    IN IF config.excludeExchanges /\ labels = <<>>
       THEN Answer(TRUE, "catch", 0)
       ELSE IF config.excludeExchanges /\ isExchangeOrProtocolWallet(labels[1])
       THEN Answer(FALSE, "exchange", 0)
       ELSE IF config.excludeDustWallets /\ isDustWallet(transactions, config)
       THEN Answer(FALSE, "dust", 1)
       ELSE IF config.excludeBots /\ isBotLikeBehavior(transactions, config)
       THEN Answer(FALSE, "bot", 1)
       ELSE IF config.useHumanHeuristics /\ ~hasHumanLikeTraits(transactions)
       THEN Answer(FALSE, "heuristics", 1)
       ELSE Answer(TRUE, "return", 1)

(***************************************************************************)
(* Direct calls of the service: the replies a call can meet                *)
(***************************************************************************)
\* the subject and one other address
SvcAddr == {"T", "X"}

Instructions ==
    {Transfer(a, b, 2 * DustFloor) : a \in SvcAddr, b \in SvcAddr}
    \cup {[kind |-> k, source |-> "", destination |-> "", lamports |-> 0] :
            k \in {"other", "malformed"}}

Outcomes == {"ok", "null", "throw"}

\* transactions of at most one top-level and one inner instruction
SigRecords(i, n) ==
    {[signature |-> i, blockTime |-> (n - i + 1) * 3600, prim |-> p, fb |-> f,
      top |-> t, inner |-> g] :
        p \in Outcomes, f \in Outcomes,
        t \in SeqsUpTo(Instructions, 1),
        g \in {<<>>} \cup {<<<<ix>>>> : ix \in Instructions}}

SigLists(n) ==
    IF n = 0 THEN {<<>>}
    ELSE LET S == UNION {SigRecords(i, n) : i \in 1..n}
         IN {q \in [1..n -> S] : \A i \in 1..n : q[i].signature = i}

\* the primary endpoint is down for an address with at most MaxSvcSigs
\* plain transfers on the ledger
RawService ==
    {[sigsOk |-> FALSE, fallbackListOk |-> f, backupListOk |-> b,
      sigs |-> SimpleSigs(q)] :
        f \in BOOLEAN, b \in BOOLEAN,
        q \in SeqsUpTo({Transfer(x, y, 2 * DustFloor) : x \in SvcAddr,
                                                       y \in SvcAddr},
                       MaxSvcSigs)}
    \cup {GoodRead(q) : q \in UNION {SigLists(n) : n \in 0..MaxSvcSigs}}

Mints == {"T", "X"}

FailedAccounts == [ok |-> FALSE, owners |-> <<>>]

HolderReplies == [{"primary", "fallback", "backup"} ->
                     {FailedAccounts} \cup
                     {[ok |-> TRUE, owners |-> q] :
                         q \in SeqsUpTo(Owners, MaxAccounts)}]

ServiceFetchWalletTransactions ==
    /\ engine = "service"
    /\ phase = "idle"
    /\ \E w \in SvcAddr, raw \in RawService :
          /\ svcCall' = [op |-> "fetchWalletTransactions", walletAddress |-> w,
                         raw |-> raw]
          /\ svcRet' = FetchOutcome(w, raw)
    /\ phase' = "done"
    /\ UNCHANGED <<tracerVars, finderVars, engine, family, ledgerUsed, fetchCount,
                   fetchFailed, revisited, appended, lastFetch>>

ServiceFetchTokenHolders ==
    /\ engine = "service"
    /\ phase = "idle"
    /\ \E m \in Mints, replies \in HolderReplies :
          /\ svcCall' = [op |-> "fetchTokenHolders", tokenAddress |-> m,
                         replies |-> replies]
          /\ svcRet' = fetchTokenHolders(m, replies)
    /\ phase' = "done"
    /\ UNCHANGED <<tracerVars, finderVars, engine, family, ledgerUsed, fetchCount,
                   fetchFailed, revisited, appended, lastFetch>>

NextService ==
    \/ ServiceFetchWalletTransactions
    \/ ServiceFetchTokenHolders

InitService ==
    /\ engine = "service"
    /\ family = "graph"
    /\ InitTracerState
    /\ InitFinderState

SpecService == InitService /\ [][NextService]_vars

(***************************************************************************)
(* Properties of the service                                               *)
(***************************************************************************)
IsPrefix(s, t) == Len(s) <= Len(t) /\ \A i \in 1..Len(s) : s[i] = t[i]

\* C5: fetchTokenHolders asks primary, fallback, backup in that order, each
\* only after the one before failed, returns the holders of the first that
\* answers and throws exactly when all three failed
HolderFailover ==
    svcCall.op = "fetchTokenHolders" =>
        LET r == svcCall.replies
            n == Len(svcRet.called)
        IN /\ n >= 1
           /\ IsPrefix(svcRet.called, Endpoints)
           /\ \A i \in 1..(n - 1) : ~r[Endpoints[i]].ok
           /\ svcRet.threw <=> \A e \in Range(Endpoints) : ~r[e].ok
           /\ ~svcRet.threw =>
                 /\ r[Endpoints[n]].ok
                 /\ Range(svcRet.holders) = Range(r[Endpoints[n]].owners)
                 /\ \A i, j \in 1..Len(svcRet.holders) :
                       svcRet.holders[i] = svcRet.holders[j] => i = j

\* C5 witness: primary and fallback failed and the backup's holders came back
BackupAnswered ==
    /\ svcCall.op = "fetchTokenHolders"
    /\ ~svcCall.replies["primary"].ok
    /\ ~svcCall.replies["fallback"].ok
    /\ ~svcRet.threw
    /\ svcRet.holders = <<"a", "b">>
    /\ svcRet.called = Endpoints

\* C6 as claimed: a transfer-history request that no endpoint can answer
\* ends in a failure its caller can tell from an empty history
HistoryFailureVisible ==
    (/\ svcCall.op = "fetchWalletTransactions"
     /\ ~svcCall.raw.sigsOk
     /\ ~svcCall.raw.fallbackListOk
     /\ ~svcCall.raw.backupListOk) => svcRet.threw

\* the instructions of a signature record, top-level first
InstructionsOf(sigInfo) ==
    sigInfo.top \o
    (IF sigInfo.inner = <<>> THEN <<>> ELSE sigInfo.inner[1])

EventsOfSignature(transactions, signature) ==
    {i \in 1..Len(transactions) : transactions[i].signature = signature}

\* the transaction was read on the primary endpoint and its loops ran through
ReadCleanly(sigInfo) ==
    /\ sigInfo.prim = "ok"
    /\ \A j \in 1..Len(InstructionsOf(sigInfo)) :
          InstructionsOf(sigInfo)[j].kind # "malformed"

\* C8: every event of the result has the subject on one side and is "in"
\* exactly when the subject is its destination; a transfer instruction,
\* top-level or inner, of a transaction that was read gives an "in" event
\* when it pays the subject, an "out" event when the subject pays someone
\* else, and no event when the subject is on neither side
ExtractionRule ==
    svcCall.op = "fetchWalletTransactions" =>
        LET w == svcCall.walletAddress
            evs == svcRet.transactions
        IN /\ \A i \in 1..Len(evs) :
                 /\ evs[i].from = w \/ evs[i].to = w
                 /\ evs[i].type \in {"in", "out"}
                 /\ evs[i].type = "in" <=> evs[i].to = w
           /\ \A k \in 1..Len(svcCall.raw.sigs) :
                 LET sigInfo == svcCall.raw.sigs[k]
                     ixs == InstructionsOf(sigInfo)
                     mine == EventsOfSignature(evs, sigInfo.signature)
                     touching == {j \in 1..Len(ixs) :
                                    /\ ixs[j].kind = "transfer"
                                    /\ w \in {ixs[j].source, ixs[j].destination}}
                 IN (svcCall.raw.sigsOk /\ ReadCleanly(sigInfo)) =>
                      /\ Cardinality(mine) = Cardinality(touching)
                      /\ \A j \in touching :
                            \E i \in mine :
                               /\ evs[i].from = ixs[j].source
                               /\ evs[i].to = ixs[j].destination
                               /\ evs[i].amount = ixs[j].lamports
                               /\ evs[i].blockTime = sigInfo.blockTime
                               /\ evs[i].type =
                                    IF ixs[j].destination = w THEN "in" ELSE "out"

\* C8 witness: a transaction with a top-level payment to the subject and an
\* inner payment by the subject gave one "in" and one "out" event
BothDirectionsExtracted ==
    /\ svcCall.op = "fetchWalletTransactions"
    /\ Len(svcRet.transactions) = 2
    /\ svcRet.transactions[1].type = "in"
    /\ svcRet.transactions[2].type = "out"
    /\ svcCall.raw.sigs[1].inner # <<>>
    /\ ReadCleanly(svcCall.raw.sigs[1])

(***************************************************************************)
(* CommonHolderAnalysis.findCommonWallets                                  *)
(*   The text box is a sequence of lines.  The handler runs to its first   *)
(*   await in one action; each holder fetch of the Promise.all settles in  *)
(*   an action of its own, in any order; the code after the Promise.all    *)
(*   and the code after each awaited isHumanTrader are one action each.    *)
(*   The awaits inside a service call touch no component state, so a call  *)
(*   settles in one step.  Both service objects ask three endpoints in     *)
(*   turn; a reply is indexed by the role the endpoint has for the object  *)
(*   asked, so the alternation between the two objects is not visible in   *)
(*   the replies.                                                          *)
(***************************************************************************)
\* a validation that lets every line through
validateTokenAddressLax(address) == TRUE

\* `new PublicKey(address)` does not throw
validateTokenAddress(address) == address \in PublicKeys

\* lines typed into the box: blank, malformed, or a mint address (the box
\* starts as the single empty line)
TokenLines == {" ", "bad"} \cup Mints

TokenTexts == UNION {[1..k -> TokenLines] : k \in 1..MaxMints}

FilterConfigs ==
    [excludeExchanges : BOOLEAN, excludeDustWallets : BOOLEAN,
     excludeBots : BOOLEAN, useHumanHeuristics : BOOLEAN,
     dustThreshold : {DefaultDustThreshold},
     botFrequencyThreshold : {DefaultBotFrequencyThreshold}]

\* tokenAddresses.split('\n').map(trim).filter(addr => addr.length > 0)
SplitLines(text) ==
    SelectSeq([i \in 1..Len(text) |-> Trim(text[i])], LAMBDA a : a # "")

LabelReplies(w) ==
    {[ok |-> FALSE, data |-> <<>>], [ok |-> TRUE, data |-> <<>>]}
    \cup {[ok |-> TRUE,
           data |-> <<[address |-> w, label |-> l, type |-> "", category |-> ""]>>] :
            l \in {"Binance 8", "Alice"}}

\* histories of a candidate: unreadable, empty, or one payment from "T",
\* below or above the default dust threshold
FinderHistories(w) ==
    {FailedRead, GoodRead(<<>>)} \cup
    {GoodRead(SimpleSigs(<<Transfer("T", w, l)>>)) :
        l \in {2 * DustFloor, 2 * DefaultDustThreshold}}

\* what the three endpoints answer for one mint: each is down or lists the
\* token accounts of the mint, the same on every endpoint that is up
MintReplies ==
    {[e \in {"primary", "fallback", "backup"} |->
        IF e \in up THEN [ok |-> TRUE, owners |-> q] ELSE FailedAccounts] :
            up \in SUBSET {"primary", "fallback", "backup"},
            q \in SeqsUpTo(Owners, MaxAccounts)}

\* a holder fetch in flight; once settled: the list handed to Promise.all
\* and whether it came from the .catch
Pending == [settled |-> FALSE, threw |-> FALSE, list |-> <<>>]

\* the intersection loop never entered: the first non-empty list survives
IntersectionKeepsFirst(lists) ==
    SelectSeq(lists, LAMBDA l : l # <<>>)[1]

\* holdersLists.filter(l => l.length > 0), then the running intersection,
\* which keeps the order of the first non-empty list
Intersection(lists) ==
    LET nonEmpty == SelectSeq(lists, LAMBDA l : l # <<>>)
    IN SelectSeq(nonEmpty[1],
                 LAMBDA x : \A i \in 2..Len(nonEmpty) : x \in Range(nonEmpty[i]))

\* disjunction of the four switches
filteringEnabled(config) ==
    \/ config.excludeExchanges
    \/ config.excludeDustWallets
    \/ config.excludeBots
    \/ config.useHumanHeuristics

\* 60 + Math.round((done / length) * 40)
ClassifyProgress(settled, length) ==
    60 + (2 * 40 * settled + length) \div (2 * length)

SetTokenAddresses ==
    /\ engine = "finder"
    /\ phase = "idle"
    /\ ~isProcessing
    /\ \E text \in TokenTexts : tokenAddresses' = text
    /\ UNCHANGED <<isProcessing, processingStatus, commonWallets, finderProgress,
                   finderToast, filterConfig, addresses, holdersLists, commonArr,
                   filtered, done, finderPc, serviceCalls, tracerVars, envVars,
                   svcVars>>

SetFilterConfig ==
    /\ engine = "finder"
    /\ phase = "idle"
    /\ \E config \in FilterConfigs : filterConfig' = config
    /\ UNCHANGED <<tokenAddresses, isProcessing, processingStatus, commonWallets,
                   finderProgress, finderToast, addresses, holdersLists,
                   commonArr, filtered, done, finderPc, serviceCalls, tracerVars,
                   envVars, svcVars>>

\* findCommonWallets up to the await of Promise.all
FindCommonWallets ==
    /\ engine = "finder"
    /\ phase = "idle"
    /\ ~isProcessing
    /\ LET addrs == SplitLines(tokenAddresses)
           invalidAddresses == SelectSeq(addrs, LAMBDA a : ~validateTokenAddress(a))
       IN IF addrs = <<>>
          THEN /\ finderToast' = "Error: Please enter at least one token address"
               /\ phase' = "done"
               /\ UNCHANGED <<isProcessing, processingStatus, commonWallets,
                              finderProgress, addresses, holdersLists, finderPc,
                              serviceCalls>>
          ELSE IF invalidAddresses # <<>>
          THEN /\ finderToast' = "Invalid Addresses"
               /\ phase' = "done"
               /\ UNCHANGED <<isProcessing, processingStatus, commonWallets,
                              finderProgress, addresses, holdersLists, finderPc,
                              serviceCalls>>
          ELSE /\ isProcessing' = TRUE
               /\ finderProgress' = 0
               /\ commonWallets' = <<>>
               /\ processingStatus' =
                     [i \in 1..Len(addrs) |->
                        [tokenAddress |-> addrs[i], status |-> "pending",
                         walletsFound |-> 0, filteredWallets |-> 0]]
               /\ addresses' = addrs
               /\ holdersLists' = [i \in 1..Len(addrs) |-> Pending]
               /\ serviceCalls' = [serviceCalls EXCEPT
                                     !.fetchTokenHolders = @ + Len(addrs)]
               /\ finderPc' = "holders"
               /\ phase' = "running"
               /\ UNCHANGED finderToast
    /\ UNCHANGED <<tokenAddresses, filterConfig, commonArr, filtered, done,
                   tracerVars, engine, family, ledgerUsed, fetchCount,
                   fetchFailed, revisited, appended, lastFetch, svcVars>>

\* a holder fetch without its .catch: a rejection rejects the Promise.all
\* and lands in the handler's catch and finally blocks
HoldersSettledAborting ==
    /\ engine = "finder"
    /\ finderPc = "holders"
    /\ \E i \in 1..Len(addresses), replies \in MintReplies :
          /\ ~holdersLists[i].settled
          /\ LET addr == addresses[i]
                 outcome == fetchTokenHolders(addr, replies)
             IN /\ holdersLists' =
                      [holdersLists EXCEPT
                          ![i] = [settled |-> TRUE, threw |-> outcome.threw,
                                  list |-> outcome.holders]]
                /\ IF outcome.threw
                   THEN /\ finderToast' = "Error"
                        /\ isProcessing' = FALSE
                        /\ finderPc' = "done"
                        /\ phase' = "done"
                        /\ UNCHANGED processingStatus
                   ELSE /\ processingStatus' =
                             [k \in 1..Len(processingStatus) |->
                                LET st == processingStatus[k]
                                IN IF st.tokenAddress # addr THEN st
                                   ELSE [st EXCEPT
                                           !.status = "completed",
                                           !.walletsFound = Len(outcome.holders)]]
                        /\ UNCHANGED <<finderToast, isProcessing, finderPc,
                                       phase>>
    /\ UNCHANGED <<tokenAddresses, commonWallets, finderProgress, filterConfig,
                   addresses, commonArr, filtered, done, serviceCalls,
                   tracerVars, engine, family, ledgerUsed, fetchCount,
                   fetchFailed, revisited, appended, lastFetch, svcVars>>

\* one fetchTokenHolders promise settles: its .then or its .catch
HoldersSettled ==
    /\ engine = "finder"
    /\ finderPc = "holders"
    /\ \E i \in 1..Len(addresses), replies \in MintReplies :
          /\ ~holdersLists[i].settled
          /\ LET addr == addresses[i]
                 outcome == fetchTokenHolders(addr, replies)
             IN /\ holdersLists' =
                      [holdersLists EXCEPT
                          ![i] = [settled |-> TRUE, threw |-> outcome.threw,
                                  list |-> outcome.holders]]
                /\ processingStatus' =
                      [k \in 1..Len(processingStatus) |->
                         LET s == processingStatus[k]
                         IN IF s.tokenAddress # addr THEN s
                            ELSE IF outcome.threw
                            THEN [s EXCEPT !.status = "error"]
                            ELSE [s EXCEPT !.status = "completed",
                                           !.walletsFound = Len(outcome.holders)]]
    /\ UNCHANGED <<tokenAddresses, isProcessing, commonWallets, finderProgress,
                   finderToast, filterConfig, addresses, commonArr, filtered,
                   done, finderPc, serviceCalls, tracerVars, envVars, svcVars>>

\* setCommonWallets .. finally: the end of a run that produced `final`
FinishFinder(final) ==
    /\ commonWallets' = final
    /\ processingStatus' =
          [k \in 1..Len(processingStatus) |->
             [processingStatus[k] EXCEPT
                 !.filteredWallets = Len(final),
                 !.status = IF @ = "error" THEN @ ELSE "completed"]]
    /\ finderToast' = "Analysis Complete"
    /\ isProcessing' = FALSE
    /\ finderPc' = "done"
    /\ phase' = "done"

\* the code after the Promise.all, up to the first awaited isHumanTrader
HoldersIntersected ==
    /\ engine = "finder"
    /\ finderPc = "holders"
    /\ \A i \in 1..Len(holdersLists) : holdersLists[i].settled
    /\ LET lists == [i \in 1..Len(holdersLists) |-> holdersLists[i].list]
           nonEmpty == SelectSeq(lists, LAMBDA l : l # <<>>)
           common == Intersection(lists)
       IN IF nonEmpty = <<>>
          THEN /\ isProcessing' = FALSE
               /\ finderToast' = "No Results"
               /\ finderPc' = "done"
               /\ phase' = "done"
               /\ UNCHANGED <<processingStatus, commonWallets, finderProgress,
                              commonArr, filtered, done, serviceCalls>>
          ELSE IF filteringEnabled(filterConfig) /\ common # <<>>
          THEN /\ commonArr' = common
               /\ finderProgress' = 60
               /\ filtered' = <<>>
               /\ done' = 0
               /\ finderPc' = "classify"
               /\ UNCHANGED <<isProcessing, processingStatus, commonWallets,
                              finderToast, phase, serviceCalls>>
          ELSE /\ commonArr' = common
               /\ finderProgress' = IF filteringEnabled(filterConfig)
                                    THEN 60 ELSE 100
               /\ FinishFinder(common)
               /\ UNCHANGED <<filtered, done, serviceCalls>>
    /\ UNCHANGED <<tokenAddresses, filterConfig, addresses, holdersLists,
                   tracerVars, engine, family, ledgerUsed, fetchCount,
                   fetchFailed, revisited, appended, lastFetch, svcVars>>

\* an awaited isHumanTrader settles; the loop goes on or the run ends
WalletClassified ==
    /\ engine = "finder"
    /\ finderPc = "classify"
    /\ LET w == commonArr[done + 1]
       IN \E labelReply \in LabelReplies(w), raw \in FinderHistories(w) :
            LET r == isHumanTrader(w, filterConfig, labelReply, raw)
                kept == IF r.verdict THEN Append(filtered, w) ELSE filtered
            IN /\ filtered' = kept
               /\ done' = done + 1
               /\ finderProgress' = ClassifyProgress(done + 1, Len(commonArr))
               /\ serviceCalls' =
                     [serviceCalls EXCEPT
                         !.isHumanTrader = @ + 1,
                         !.fetchWalletLabels = @ + r.labelCalls,
                         !.fetchWalletTransactions = @ + r.historyCalls]
               /\ IF done + 1 < Len(commonArr)
                  THEN UNCHANGED <<isProcessing, processingStatus,
                                   commonWallets, finderToast, finderPc, phase>>
                  ELSE FinishFinder(kept)
    /\ UNCHANGED <<tokenAddresses, filterConfig, addresses, holdersLists,
                   commonArr, tracerVars, engine, family, ledgerUsed, fetchCount,
                   fetchFailed, revisited, appended, lastFetch, svcVars>>

NextFinder ==
    \/ SetTokenAddresses
    \/ SetFilterConfig
    \/ FindCommonWallets
    \/ HoldersSettled
    \/ HoldersIntersected
    \/ WalletClassified

\* either component mounted, the ledger answering from the "plain" family
InitAnalysis ==
    /\ engine \in {"tracer", "finder"}
    /\ family = "plain"
    /\ InitTracerState
    /\ InitFinderState

NextAnalysis ==
    \/ NextTracer
    \/ NextFinder

SpecAnalysis == InitAnalysis /\ [][NextAnalysis]_vars

(***************************************************************************)
(* Properties of the input checks                                          *)
(***************************************************************************)
\* an identifier the ledger's address format admits
WellFormed(a) == a \in PublicKeys

\* the run was started on a target that is blank or malformed
RejectedTracerInput ==
    /\ engine = "tracer"
    /\ phase # "idle"
    /\ (Trim(targetWallet) = "" \/ ~WellFormed(targetWallet))

\* the run was started on a mint list that is empty or holds a malformed line
RejectedFinderInput ==
    /\ engine = "finder"
    /\ phase # "idle"
    /\ LET given == SplitLines(tokenAddresses)
       IN given = <<>> \/ \E i \in 1..Len(given) : ~WellFormed(given[i])

\* C7: a malformed address is rejected before any ledger query.  When the
\* tracer's target, or any one of the finder's mint lines, fails validation,
\* or the input is empty, the run is over at once with an error toast, the
\* component never enters its busy state, and no call of
\* fetchWalletTransactions, fetchTokenHolders or fetchWalletLabels has been
\* made.
MalformedRejectedBeforeQuery ==
    /\ RejectedTracerInput =>
          /\ phase = "done"
          /\ toast \in {"Error: Please enter a wallet address", "Invalid Address"}
          /\ ~isTracing
          /\ stack = <<>>
          /\ TotalFetches = 0
    /\ RejectedFinderInput =>
          /\ phase = "done"
          /\ finderToast \in {"Error: Please enter at least one token address",
                               "Invalid Addresses"}
          /\ ~isProcessing
          /\ finderPc = "idle"
          /\ serviceCalls.fetchTokenHolders = 0
          /\ serviceCalls.fetchWalletLabels = 0
          /\ serviceCalls.fetchWalletTransactions = 0

\* the finder turned down a list of one valid and one malformed mint
MixedMintListRejected ==
    /\ RejectedFinderInput
    /\ finderToast = "Invalid Addresses"
    /\ LET given == SplitLines(tokenAddresses)
       IN /\ Len(given) = 2
          /\ \E i \in 1..2 : WellFormed(given[i])
          /\ \E i \in 1..2 : ~WellFormed(given[i])

(***************************************************************************)
(* The two folds of traceHops applied to one event list and to the same    *)
(* list shuffled                                                           *)
(***************************************************************************)
\* 0.1, 0.2 and 0.3 SOL
FoldLamports == {DefaultDustThreshold, 2 * DefaultDustThreshold,
                 3 * DefaultDustThreshold}

\* the histories of subject "T": at most MaxFold one-transfer transactions
\* with "X" or "Y", as fetchWalletTransactions returns them
FoldHistories ==
    {fetchWalletTransactions("T", GoodRead(SimpleSigs(q))) :
        q \in SeqsUpTo(Touching("T", {"X", "Y"}, FoldLamports), MaxFold)}

Shuffles(transactions) ==
    {[i \in 1..Len(transactions) |-> transactions[p[i]]] :
        p \in Permutations(1..Len(transactions))}

\* part_000:118-140 on `transactions` and on `shuffled`
FoldTransferEvents ==
    /\ engine = "fold"
    /\ phase = "idle"
    /\ \E transactions \in FoldHistories :
          \E shuffled \in Shuffles(transactions) :
             /\ svcCall' = [op |-> "fold", walletAddress |-> "T",
                            transactions |-> transactions,
                            shuffled |-> shuffled]
             /\ svcRet' = [inflowMap |-> FlowMap(transactions, "T", "in"),
                           outflowMap |-> FlowMap(transactions, "T", "out"),
                           inflowMapShuffled |-> FlowMap(shuffled, "T", "in"),
                           outflowMapShuffled |-> FlowMap(shuffled, "T", "out")]
    /\ phase' = "done"
    /\ UNCHANGED <<tracerVars, finderVars, engine, family, ledgerUsed,
                   fetchCount, fetchFailed, revisited, appended, lastFetch>>

InitFold ==
    /\ engine = "fold"
    /\ family = "graph"
    /\ InitTracerState
    /\ InitFinderState

SpecFold == InitFold /\ [][FoldTransferEvents]_vars

\* the (counterparty, direction, total, count) aggregates of a Map
AggregateSet(m, type) ==
    {<<m[i].address, type, m[i].total, m[i].count>> : i \in 1..Len(m)}

\* C11: aggregation is order-independent.  Folding a list of transfer
\* events of one subject and folding any permutation of it give the same
\* set of (counterparty, direction, total, count) aggregates.
AggregationOrderIndependent ==
    svcCall.op = "fold" =>
       /\ AggregateSet(svcRet.inflowMap, "in")
             = AggregateSet(svcRet.inflowMapShuffled, "in")
       /\ AggregateSet(svcRet.outflowMap, "out")
             = AggregateSet(svcRet.outflowMapShuffled, "out")

(***************************************************************************)
(* Properties of the holder finder                                         *)
(***************************************************************************)
\* the run got past its Promise.all and the code that follows it
Intersected ==
    /\ engine = "finder"
    /\ finderPc \in {"classify", "done"}
    /\ holdersLists # <<>>

AllFetchesSucceeded ==
    \A i \in 1..Len(holdersLists) : ~holdersLists[i].threw

\* the addresses held in every list
HeldInAll(lists) ==
    {x \in Owners : \A i \in 1..Len(lists) : x \in Range(lists[i])}

\* C12: when the holder fetches of all listed mints succeed, the result
\* before classification is exactly the set of addresses that are in the
\* holder set of every listed mint, an empty holder set included.
HolderIntersectionExact ==
    (Intersected /\ AllFetchesSucceeded) =>
        Range(commonArr)
          = HeldInAll([i \in 1..Len(holdersLists) |-> holdersLists[i].list])

\* the lists handed to the intersection, in the order of the mint list
SettledLists == [i \in 1..Len(holdersLists) |-> holdersLists[i].list]

\* what lines 117-129 leave in commonArr for the lists in a given order
CommonFor(lists) ==
    IF \A i \in 1..Len(lists) : lists[i] = <<>> THEN <<>>
    ELSE Intersection(lists)

\* C13: the holder intersection does not depend on the order of the mints.
\* Whatever holder lists the fetches returned, the mints taken in any other
\* order with the same lists give the same set of common addresses as the
\* run computed.
IntersectionOrderIndependent ==
    Intersected =>
        \A p \in Permutations(1..Len(holdersLists)) :
            Range(CommonFor([i \in 1..Len(holdersLists) |-> SettledLists[p[i]]]))
              = Range(commonArr)

\* two mints with different non-empty holder lists and a common holder
TwoMintsShareHolder ==
    /\ Intersected
    /\ Len(holdersLists) = 2
    /\ SettledLists[1] # <<>>
    /\ SettledLists[2] # <<>>
    /\ SettledLists[1] # SettledLists[2]
    /\ commonArr # <<>>

\* a findCommonWallets run that got past the input checks
FinderStarted == engine = "finder" /\ holdersLists # <<>>

\* C14: a failed holder fetch never aborts the run.  The failed mint counts
\* as an empty holder list; a started run is either still under way with the
\* processing flag set and a step to take, or it ended normally with the
\* flag cleared; it never ends with an error; and when every mint failed or
\* had no holders it ends with an empty result and the no-results report.
FailedFetchNeverAborts ==
    FinderStarted =>
       /\ \A i \in 1..Len(holdersLists) :
              holdersLists[i].threw => holdersLists[i].list = <<>>
       /\ finderToast \in {"none", "Analysis Complete", "No Results"}
       /\ phase = "running" =>
              /\ isProcessing
              /\ ENABLED (HoldersSettled \/ HoldersIntersected \/ WalletClassified)
       /\ phase = "done" =>
              /\ ~isProcessing
              /\ finderToast # "none"
              /\ (\A i \in 1..Len(holdersLists) : SettledLists[i] = <<>>)
                    <=> (finderToast = "No Results")
              /\ finderToast = "No Results" => commonWallets = <<>>

\* a run in which one mint's fetch failed on all endpoints ended normally
\* with a common holder found
FailedMintRunCompleted ==
    /\ FinderStarted
    /\ phase = "done"
    /\ finderToast = "Analysis Complete"
    /\ \E i \in 1..Len(holdersLists) : holdersLists[i].threw
    /\ commonWallets # <<>>

(***************************************************************************)
(* Direct calls of isHumanTrader: the configurations, label replies and    *)
(* histories a call can meet                                               *)
(***************************************************************************)
\* 0.05, 0.1 and 0.5 SOL
ClassifierLamports ==
    {DefaultDustThreshold \div 2, DefaultDustThreshold, 5 * DefaultDustThreshold}

ClassifierConfigs ==
    [excludeExchanges : BOOLEAN, excludeDustWallets : BOOLEAN,
     excludeBots : BOOLEAN, useHumanHeuristics : BOOLEAN,
     dustThreshold : {DefaultDustThreshold},
     botFrequencyThreshold : {2, DefaultBotFrequencyThreshold}]

\* a readable history of one payment from "T" per transaction, newest
\* first, `gap` seconds apart
Sample(w, amounts, gap) ==
    GoodRead([i \in 1..Len(amounts) |->
                [signature |-> i, blockTime |-> (Len(amounts) - i + 1) * gap,
                 prim |-> "ok", fb |-> "ok",
                 top |-> <<Transfer("T", w, amounts[i])>>, inner |-> <<>>]])

\* n amounts of which the first `same` are 0.1 SOL and the others differ
\* from it and from each other
Repeated(n, same) ==
    [i \in 1..n |-> IF i <= same THEN DefaultDustThreshold
                    ELSE DefaultDustThreshold + i * DustFloor]

\* n amounts taking two values in turn
TwoValues(n) ==
    [i \in 1..n |-> IF i % 2 = 0 THEN DefaultDustThreshold
                    ELSE 2 * DefaultDustThreshold]

ClassifierHistories(w) ==
    {FailedRead}
    \cup {Sample(w, q, gap) : q \in SeqsUpTo(ClassifierLamports, MaxSample),
                              gap \in {60, 7200}}
    \cup {Sample(w, Repeated(10, same), 3600) : same \in {1, 7, 8, 10}}
    \cup {Sample(w, TwoValues(10), 3600)}
    \cup {Sample(w, Repeated(11, 1), gap) : gap \in {60, 3600}}

ClassifierLabels(w) ==
    {[ok |-> FALSE, data |-> <<>>], [ok |-> TRUE, data |-> <<>>]}
    \cup {[ok |-> TRUE,
           data |-> <<[address |-> w, label |-> l, type |-> t,
                       category |-> ""]>>] :
            l \in {"", "Binance 8", "Alice"}, t \in {"", "Jupiter Aggregator"}}

ServiceIsHumanTrader ==
    /\ engine = "classifier"
    /\ phase = "idle"
    /\ \E config \in ClassifierConfigs, labelReply \in ClassifierLabels("a"),
          raw \in ClassifierHistories("a") :
          /\ svcCall' = [op |-> "isHumanTrader", walletAddress |-> "a",
                         config |-> config, labelReply |-> labelReply,
                         raw |-> raw]
          /\ svcRet' = isHumanTrader("a", config, labelReply, raw)
    /\ phase' = "done"
    /\ UNCHANGED <<tracerVars, finderVars, engine, family, ledgerUsed,
                   fetchCount, fetchFailed, revisited, appended, lastFetch>>

InitClassifier ==
    /\ engine = "classifier"
    /\ family = "graph"
    /\ InitTracerState
    /\ InitFinderState

SpecClassifier == InitClassifier /\ [][ServiceIsHumanTrader]_vars

(***************************************************************************)
(* Properties of the classifier: what a call of isHumanTrader was given,   *)
(* stated without the classifier's own tests                               *)
(***************************************************************************)
Classified == svcCall.op = "isHumanTrader"

\* the events the history fetch of the call returned
Sampled == fetchWalletTransactions(svcCall.walletAddress, svcCall.raw)

\* the label service failed, or answered without an entry
NoLabelEntry == ~svcCall.labelReply.ok \/ svcCall.labelReply.data = <<>>

\* the entry for the address names an exchange or a protocol
KnownEntity ==
    /\ ~NoLabelEntry
    /\ \E f \in {svcCall.labelReply.data[1].label,
                  svcCall.labelReply.data[1].type,
                  svcCall.labelReply.data[1].category} :
          f \in {"Binance 8", "Jupiter Aggregator"}

SampledTotal == AmountOver(Sampled, 1..Len(Sampled))

\* the stages that are switched on and fail on what the call was given
FailingStages ==
    {k \in 1..4 :
        \/ k = 1 /\ svcCall.config.excludeExchanges /\ KnownEntity
        \/ k = 2 /\ svcCall.config.excludeDustWallets
                 /\ SampledTotal < svcCall.config.dustThreshold
        \/ k = 3 /\ svcCall.config.excludeBots
                 /\ isBotLikeBehavior(Sampled, svcCall.config)
        \/ k = 4 /\ svcCall.config.useHumanHeuristics
                 /\ ~hasHumanLikeTraits(Sampled)}

StageName == <<"exchange", "dust", "bot", "heuristics">>

FirstFailing ==
    IF FailingStages = {} THEN "return"
    ELSE StageName[CHOOSE k \in FailingStages : \A j \in FailingStages : k <= j]

\* C15: isHumanTrader evaluates the enabled stages in the order
\* known-entity, dust, bot, human-heuristic; it rejects at the first enabled
\* stage that fails and keeps when none fails; a disabled stage never
\* changes the verdict; a rejection by the known-entity stage causes no
\* transfer-history fetch.
StagesInFixedOrder ==
    Classified =>
       /\ svcRet.verdict = (FirstFailing = "return")
       /\ ~svcRet.verdict => svcRet.stage = FirstFailing
       /\ FirstFailing = "exchange" => svcRet.historyCalls = 0

\* C16: the classifier fails open.  For every configuration, when the
\* transfer history of the address cannot be fetched from any endpoint,
\* isHumanTrader returns keep.
ClassifierFailsOpen ==
    (Classified /\ svcCall.raw = FailedRead) => svcRet.verdict

\* C17: when the label service fails, or answers without an entry for the
\* address, the address counts as unlabelled: the known-entity stage passes
\* and the enabled dust, bot and human-heuristic stages are evaluated and
\* decide the verdict, for every configuration.
MissingLabelMeansNoLabel ==
    (Classified /\ NoLabelEntry) =>
       svcRet.verdict = (FailingStages \ {1} = {})

\* the call got as far as fetching the history, so the dust stage is the
\* next to decide
HistorySampled == Classified /\ svcRet.historyCalls = 1

\* C18: with the dust filter enabled, the dust stage rejects an address
\* exactly when the sum of the amounts of its sampled transfer events is
\* strictly less than dustThreshold; a sum equal to the threshold passes.
DustStageExact ==
    (HistorySampled /\ svcCall.config.excludeDustWallets) =>
       /\ svcRet.stage = "dust" <=> SampledTotal < svcCall.config.dustThreshold
       /\ svcRet.stage = "dust" => ~svcRet.verdict

\* two events of 0.05 SOL, together exactly the threshold of 0.1 SOL, got
\* past the dust stage
TotalEqualToThresholdPassed ==
    /\ HistorySampled
    /\ svcCall.config.excludeDustWallets
    /\ Len(Sampled) = 2
    /\ SampledTotal = svcCall.config.dustThreshold
    /\ svcRet.stage # "dust"

\* the call got past the dust stage with the bot filter switched on
BotStageReached ==
    /\ HistorySampled
    /\ svcRet.stage # "dust"
    /\ svcCall.config.excludeBots

\* seconds between the oldest and the newest sampled event
ObservedSpan ==
    LET times == {Sampled[i].blockTime : i \in 1..Len(Sampled)}
    IN (CHOOSE t \in times : \A u \in times : u <= t)
       - (CHOOSE t \in times : \A u \in times : t <= u)

\* events per hour over the observed span, floored at one hour, exceed the
\* threshold
FrequencyExceeds ==
    Len(Sampled) * 3600
      > svcCall.config.botFrequencyThreshold
          * (IF ObservedSpan < 3600 THEN 3600 ELSE ObservedSpan)

\* C19: with the bot filter enabled, for every non-empty sample of any
\* size, the address is rejected whenever its event count divided by the
\* observed time span in hours (floored at 1 hour) exceeds
\* botFrequencyThreshold.
FrequencyRejectsAnySample ==
    (BotStageReached /\ Sampled # <<>> /\ FrequencyExceeds) => ~svcRet.verdict

\* C19 (amended): with the bot filter enabled, a sample of more than ten
\* events is rejected by the bot stage whenever its event count divided by
\* the observed time span in hours (floored at 1 hour) exceeds
\* botFrequencyThreshold; smaller samples are not put to the frequency test.
FrequencyRejectsLargeSample ==
    (BotStageReached /\ Len(Sampled) > 10 /\ FrequencyExceeds) =>
        (svcRet.stage = "bot" /\ ~svcRet.verdict)

\* eleven events of eleven different amounts within ten minutes, against a
\* threshold of two events an hour, were rejected by the bot stage
BurstOfElevenRejected ==
    /\ BotStageReached
    /\ Len(Sampled) = 11
    /\ FrequencyExceeds
    /\ Cardinality({Sampled[i].amount : i \in 1..11}) = 11
    /\ svcRet.stage = "bot"

\* more than 70% of the sampled amounts are one value
DominantAmount ==
    \E i \in 1..Len(Sampled) :
        10 * Cardinality({j \in 1..Len(Sampled) :
                            Sampled[j].amount = Sampled[i].amount})
          > 7 * Len(Sampled)

\* C20: with the bot filter enabled, the repetition test rejects an address
\* exactly when more than 70% of its sampled transfer amounts are the same
\* value (8 of 10 is rejected, 7 of 10 is not), for every sample on which
\* the frequency test does not already reject.
RepetitionRejectsOver70 ==
    (BotStageReached /\ Sampled # <<>> /\ ~FrequencyExceeds) =>
        (svcRet.stage = "bot" <=> DominantAmount)

\* the call got past the dust and bot stages with the human heuristic
\* switched on
HeuristicStageReached ==
    /\ HistorySampled
    /\ svcRet.stage \notin {"dust", "bot"}
    /\ svcCall.config.useHumanHeuristics

TouchingIn(w, sigInfo) ==
    {j \in 1..Len(InstructionsOf(sigInfo)) :
        /\ InstructionsOf(sigInfo)[j].kind = "transfer"
        /\ w \in {InstructionsOf(sigInfo)[j].source,
                   InstructionsOf(sigInfo)[j].destination}}

FetchedHistory == svcCall.op = "fetchWalletTransactions"

\* C23: when the primary endpoint fails to list the signatures of the
\* address, the request is retried on the fallback and then on the backup
\* endpoint, and the data of the first endpoint that succeeds is returned:
\* the transfers of the address come back as long as one endpoint lists
\* them.
HistoryFailover ==
    (/\ FetchedHistory
     /\ ~svcCall.raw.sigsOk
     /\ svcCall.raw.fallbackListOk \/ svcCall.raw.backupListOk) =>
        /\ \E i \in 1..Len(svcRet.reads) :
              /\ svcRet.reads[i].call = "getSignaturesForAddress"
              /\ svcRet.reads[i].endpoint # "primary"
        /\ \A k \in 1..Len(svcCall.raw.sigs) :
              ReadCleanly(svcCall.raw.sigs[k]) =>
                 Cardinality(EventsOfSignature(svcRet.transactions,
                                               svcCall.raw.sigs[k].signature))
                   = Cardinality(TouchingIn(svcCall.walletAddress,
                                            svcCall.raw.sigs[k]))

PrimaryReadThrows(sigInfo) ==
    \/ sigInfo.prim = "throw"
    \/ /\ sigInfo.prim = "ok"
       /\ \E j \in 1..Len(InstructionsOf(sigInfo)) :
             InstructionsOf(sigInfo)[j].kind = "malformed"

ReadsOn(endpoint, signature) ==
    {i \in 1..Len(svcRet.reads) :
        /\ svcRet.reads[i].call = "getParsedTransaction"
        /\ svcRet.reads[i].endpoint = endpoint
        /\ svcRet.reads[i].signature = signature}

OneEventPerInstruction ==
    (FetchedHistory /\ svcCall.raw.sigsOk) =>
        \A k \in 1..Len(svcCall.raw.sigs) :
            LET sigInfo == svcCall.raw.sigs[k]
                ixs == InstructionsOf(sigInfo)
                mine == EventsOfSignature(svcRet.transactions,
                                          sigInfo.signature)
            IN \A j \in TouchingIn(svcCall.walletAddress, sigInfo) :
                  Cardinality({i \in mine :
                      /\ svcRet.transactions[i].from = ixs[j].source
                      /\ svcRet.transactions[i].to = ixs[j].destination
                      /\ svcRet.transactions[i].amount = ixs[j].lamports})
                    <= Cardinality({h \in TouchingIn(svcCall.walletAddress,
                                                     sigInfo) :
                          /\ ixs[h].source = ixs[j].source
                          /\ ixs[h].destination = ixs[j].destination
                          /\ ixs[h].lamports = ixs[j].lamports})

\* C22: within one trace run the progress values reported by setProgress
\* never decrease, for every maxHops and every transfer graph, whichever
\* branch reports first.
ProgressNeverDecreases ==
    [][(isTracing /\ isTracing') => progress' >= progress]_vars

\* the latest expansion was one that selects a next frontier
FrontierSelected ==
    /\ lastFetch.walletAddress # ""
    /\ lastFetch.currentHop + 1 < maxHops

\* the counterparties of the latest expansion, inbound and outbound
Counterparties ==
    Range(MapKeys(lastFetch.inflowMap)) \cup Range(MapKeys(lastFetch.outflowMap))

\* the larger of the inbound and outbound totals of a counterparty
BestTotal(a) ==
    LET totals == {e.total : e \in {x \in Range(lastFetch.inflowMap)
                                        \cup Range(lastFetch.outflowMap) :
                                      x.address = a}}
    IN CHOOSE t \in totals : \A u \in totals : u <= t

\* lexical order of the addresses
AddressOrder == <<"F1", "F2", "F3", "F4", "F5", "T", "X", "Y">>

AddressRank(a) == CHOOSE i \in 1..Len(AddressOrder) : AddressOrder[i] = a

\* a comes before b in the sort order: larger total first, ties by address
SortsBefore(a, b) ==
    \/ BestTotal(a) > BestTotal(b)
    \/ BestTotal(a) = BestTotal(b) /\ AddressRank(a) < AddressRank(b)

\* C25: when an address is expanded at hop h with h+1 < maxHops, the
\* addresses recursed into are exactly the first 5 (or all, if fewer)
\* distinct addresses of the union of its inbound and outbound
\* counterparties in the sort order (descending total, ties by address);
\* an address that is both an inbound and an outbound counterparty takes
\* one slot.
FrontierIsTopFiveDistinct ==
    FrontierSelected =>
        Range(lastFetch.nextHopWallets) =
            {a \in Counterparties :
                Cardinality({b \in Counterparties : SortsBefore(b, a)})
                  < BranchCap}

\* the address is in the results collected so far with the given hop
ReportedAt(a, hop) ==
    \/ \E i \in 1..Len(allInflows) :
          allInflows[i].address = a /\ allInflows[i].hop = hop
    \/ \E i \in 1..Len(allOutflows) :
          allOutflows[i].address = a /\ allOutflows[i].hop = hop

\* C26: every address placed on the next frontier of an expansion is the
\* counterparty of an aggregate that survived the dust floor, so it is in
\* the inflow or outflow results with that expansion's hop; no history is
\* fetched for a counterparty whose aggregate was dropped as dust.
FrontierSurvivedDust ==
    FrontierSelected =>
        \A i \in 1..Len(lastFetch.nextHopWallets) :
            ReportedAt(lastFetch.nextHopWallets[i], lastFetch.currentHop)

\* a run ended and published its lists
TracePublished == phase = "done" /\ toast = "Tracing Complete"

NoTwoEntries(list) ==
    \A i, j \in 1..Len(list) :
        (list[i].address = list[j].address /\ list[i].hop = list[j].hop)
           => i = j

\* C27: in the final inflow list, and in the final outflow list, there is
\* at most one entry per (address, hop) pair: two addresses expanded at the
\* same hop never produce two entries for one counterparty at that hop.
OneEntryPerAddressAndHop ==
    TracePublished => (NoTwoEntries(inflows) /\ NoTwoEntries(outflows))

\* descending by amount, entries of equal amount by address
InPublishedOrder(list, type) ==
    \A i, j \in 1..Len(list) :
        i < j =>
           \/ FlowKey(list[i], type) > FlowKey(list[j], type)
           \/ /\ FlowKey(list[i], type) = FlowKey(list[j], type)
              /\ AddressRank(list[i].address) <= AddressRank(list[j].address)

\* C28: the final inflow list is sorted descending by total inbound amount
\* and the final outflow list descending by total outbound amount, entries
\* with equal totals ordered by address, so that the published order does
\* not depend on the order in which the ledger returned the events or in
\* which the branches were expanded.
PublishedOrderReproducible ==
    TracePublished =>
        (InPublishedOrder(inflows, "in") /\ InPublishedOrder(outflows, "out"))

\* C29: an address selected into a frontier is never first expanded at a
\* deeper hop, through an earlier sibling's subtree, than the hop that
\* frontier gives it: with maxHops >= 2 an address of the target's
\* frontier whose history fetch succeeds is expanded at hop 1.
ExpandedAtShallowestHop ==
    \A k \in 1..Len(stack) :
        (/\ stack[k].pc = "loop"
         /\ ~lastFetch.failed
         /\ lastFetch.walletAddress \in Range(stack[k].nextHopWallets))
           => lastFetch.currentHop <= stack[k].currentHop + 1


====
